---- MODULE Spec2Model ----
(***************************************************************************)
(* Model of the signup / verify-email / signin / project REST backend.     *)
(*                                                                         *)
(* Two iterations of the server are modelled, selected by `app`:           *)
(*   "basic"  src/server.js lines 1-201   (signup, verify-email, signin)   *)
(*   "full"   src/unnamed/part_000 lines 1-551, identical in logic to      *)
(*            src/server.js lines 255-647 (adds the auth gate, projects    *)
(*            and project emails, and stores the verification token)       *)
(*                                                                         *)
(* Every handler is an operator from the state before the request and its *)
(* inputs to an outcome (SpecConcurrent instead runs the handlers query    *)
(* by query, several requests at a time):                                  *)
(* the state after it, the response sent, the SQL statements issued, and   *)
(* for a protected route whether the handler body ran and as which user.   *)
(* An action is one whole request: it applies its handler's outcome.       *)
(* A handler's database calls may reject: `fail` names the query           *)
(* (1 = first issued) that rejects, 0 meaning none does.                   *)
(*                                                                         *)
(* Strings that the code inspects (inputName.includes("@")) or compares    *)
(* across columns are sequences of one-character strings.                  *)
(***************************************************************************)
EXTENDS Integers, Sequences, FiniteSets, TLC

VARIABLES app, db, outbox, issued, now,
          nextUserId, nextProjectId, nextEmailId, resp,
          mailLog, tx, inflight, millis, tz

vars == <<app, db, outbox, issued, now,
          nextUserId, nextProjectId, nextEmailId, resp,
          mailLog, tx, inflight, millis, tz>>

(***************************************************************************)
(* Bounds of the model.                                                    *)
(***************************************************************************)
MaxUsers == 2
MaxProjects == 2
MaxProjectEmails == 2
MaxSessions == 1
MaxTicks == 2
MaxInflight == 2

(***************************************************************************)
(* Program constants.                                                      *)
(***************************************************************************)
BcryptCost == 13
ExpiresIn == 3600

Apps == {"basic", "full"}

(***************************************************************************)
(* Request inputs.  <<>> is the empty or missing (falsy) value.            *)
(***************************************************************************)
UsernameInputs == { <<>>, <<"a">>, <<"b">> }
EmailInputs == { <<>>, <<"a", "@", "x">>, <<"b", "@", "x">> }
PasswordInputs == { <<>>, <<"p">>, <<"q">> }
SignupPasswords == { <<>>, <<"p">> }
ProjectNameInputs == { <<>>, <<"n">> }
ProjectEmailInputs == { <<>>, <<"a", "@", "x">> }

Null == <<"NULL">>
Falsy(s) == s = <<>>
Includes(s, c) == \E i \in 1..Len(s) : s[i] = c
SqlEq(column, value) == column # Null /\ value # Null /\ column = value

HexDigits == <<"1", "2", "3", "4", "5", "6", "7", "8", "9">>
RandomHexToken(n) == <<"0", HexDigits[n]>>
UnknownToken == <<"f", "f">>
TokenInputs ==
  { <<>>, UnknownToken } \cup { RandomHexToken(n) : n \in 1..(MaxUsers + 1) }
    \cup (EmailInputs \ { <<>> })

(***************************************************************************)
(* bcrypt: the salted hash is abstracted to the pair (cost, plaintext).    *)
(***************************************************************************)
BcryptHash(password, cost) == [cost |-> cost, of |-> password]
BcryptCompare(password, hash) == hash = BcryptHash(password, hash.cost)

(***************************************************************************)
(* jsonwebtoken: a token is its payload plus the key that signed it.  The  *)
(* library reads the clock in whole seconds, Math.floor(Date.now() / 1000):*)
(* t is that number, in JwtSign and in JwtVerify.                          *)
(***************************************************************************)
JwtSecret == "JWT_SECRET"
Undefined == [userId |-> 0, iat |-> 0, exp |-> 0, sig |-> "undefined"]
Malformed == [userId |-> 0, iat |-> 0, exp |-> 0, sig |-> "malformed"]
JwtSign(userId, t) ==
  [userId |-> userId, iat |-> t, exp |-> t + ExpiresIn, sig |-> JwtSecret]
JwtVerifyIgnoresExpiry(token, t) ==
  [err |-> token.sig # JwtSecret,
   user |-> [userId |-> token.userId, iat |-> token.iat, exp |-> token.exp]]
JwtVerify(token, t) ==
  [err |-> token.sig # JwtSecret \/ t >= token.exp,
   user |-> [userId |-> token.userId, iat |-> token.iat, exp |-> token.exp]]
Forged(userId) ==
  [userId |-> userId, iat |-> 0, exp |-> 1000000, sig |-> "OTHER_SECRET"]

(***************************************************************************)
(* Responses.                                                              *)
(***************************************************************************)
Json(status, body) == [status |-> status, body |-> body]
Message(status, text) == Json(status, [message |-> text])
SendStatus(status) ==
  Json(status, [text |-> IF status = 401 THEN "Unauthorized" ELSE "Forbidden"])
NoResponse == Json(0, [text |-> "no response"])
InternalError == Message(500, "Internal server error")
InvalidCredentials == Message(401, "Invalid username/email or password")
EmailNotVerified == Message(400, "Email not verified")
InvalidToken == Message(400, "Invalid token")
NotFoundOrNotOwned == Message(404, "Project not found or not owned by the user")

(***************************************************************************)
(* Authorization headers a client can present: none, the scheme alone, a   *)
(* token some signin issued, a token signed with another key, garbage.     *)
(***************************************************************************)
AuthHeaders ==
  { <<>>, <<"Bearer">>, <<"Bearer", Malformed>> }
    \cup { <<"Bearer", t>> : t \in issued }
    \cup { <<"Bearer", Forged(u)>> : u \in 1..MaxUsers }

NoUser == [userId |-> 0, iat |-> 0, exp |-> 0]

AuthenticateToken(authHeader, t) ==
  LET token == IF Len(authHeader) >= 2 THEN authHeader[2] ELSE Undefined
      v == JwtVerify(token, t)
  IN  IF token = Undefined
        THEN [next |-> FALSE, resp |-> SendStatus(401), user |-> NoUser]
        ELSE IF v.err
          THEN [next |-> FALSE, resp |-> SendStatus(403), user |-> NoUser]
          ELSE [next |-> TRUE, resp |-> NoResponse, user |-> v.user]


(***************************************************************************)
(* The clock.  It moves along 0, 3599, 3600, 7199, 7200, ... so that both  *)
(* sides of a token's expiry instant are visited.                          *)
(***************************************************************************)
TickStep(t) == IF t % ExpiresIn = ExpiresIn - 1 THEN 1 ELSE ExpiresIn - 1
TicksAt(t) == 2 * (t \div ExpiresIn) + (IF t % ExpiresIn = 0 THEN 0 ELSE 1)

(***************************************************************************)
(* SQL statements, as the handlers issue them through client.query.        *)
(***************************************************************************)
SelectUserByEmail == "SELECT * FROM users WHERE email = $1"
SelectUserByUsername == "SELECT * FROM users WHERE username = $1"
InsertUser == "INSERT INTO users"
UpdateVerified == "UPDATE users SET is_verified = TRUE"
Begin == "BEGIN"
Commit == "COMMIT"
Rollback == "ROLLBACK"
DeleteEmailsOfUser ==
  "DELETE FROM project_emails WHERE project_id IN (SELECT id FROM projects WHERE user_id = $1)"
DeleteProjectsOfUser == "DELETE FROM projects WHERE user_id = $1"
DeleteUserById == "DELETE FROM users WHERE id = $1"
InsertProject == "INSERT INTO projects"
DeleteEmailsOfProject == "DELETE FROM project_emails WHERE project_id = $1"
DeleteProjectOwned == "DELETE FROM projects WHERE id = $1 AND user_id = $2"
SelectProjectById == "SELECT * FROM projects WHERE id = $1"
SelectProjectOwned == "SELECT * FROM projects WHERE id = $1 AND user_id = $2"
SelectEmailOfProject ==
  "SELECT * FROM project_emails WHERE project_id = $1 AND email = $2"
InsertEmail == "INSERT INTO project_emails"
SelectEmailsOfProject == "SELECT * FROM project_emails WHERE project_id = $1"
DeleteEmailById == "DELETE FROM project_emails WHERE id = $1 AND project_id = $2"

(***************************************************************************)
(* The effect of each data-changing statement on the tables.               *)
(***************************************************************************)
Exec(stmt, d, p1, p2) ==
  CASE stmt = DeleteEmailsOfUser ->
         [d EXCEPT !.project_emails =
            { e \in @ : e.project_id \notin
                { p.id : p \in { q \in d.projects : q.user_id = p1 } } }]
    [] stmt = DeleteProjectsOfUser ->
         [d EXCEPT !.projects = { p \in @ : p.user_id # p1 }]
    [] stmt = DeleteUserById ->
         [d EXCEPT !.users = { u \in @ : u.id # p1 }]
    [] stmt = DeleteEmailsOfProject ->
         [d EXCEPT !.project_emails = { e \in @ : e.project_id # p1 }]
    [] stmt = DeleteProjectOwned ->
         [d EXCEPT !.projects = { p \in @ : ~(p.id = p1 /\ p.user_id = p2) }]
    [] stmt = DeleteEmailById ->
         [d EXCEPT !.project_emails =
            { e \in @ : ~(e.id = p1 /\ e.project_id = p2) }]
    [] OTHER -> d

RECURSIVE ExecAll(_, _, _, _)
ExecAll(stmts, d, p1, p2) ==
  IF stmts = <<>> THEN d
  ELSE ExecAll(Tail(stmts), Exec(Head(stmts), d, p1, p2), p1, p2)

(***************************************************************************)
(* ROLLBACK restores the tables as they were at BEGIN.  When the ROLLBACK  *)
(* itself rejects the connection is gone and the server aborts the         *)
(* transaction, with the same effect on the tables.                        *)
(***************************************************************************)
NotRolledBack(atBegin, working) == working

RolledBack(atBegin, working) == atBegin

(***************************************************************************)
(* Outcomes.                                                               *)
(***************************************************************************)
Out(s, r, q) == [s |-> s, resp |-> r, sql |-> q, ran |-> TRUE, user |-> NoUser]

Protected(s, authHeader, handled) ==
  LET g == AuthenticateToken(authHeader, s.now)
  IN  IF g.next
        THEN [handled EXCEPT !.user = g.user]
        ELSE [s |-> s, resp |-> g.resp, sql |-> <<>>, ran |-> FALSE,
              user |-> NoUser]

(***************************************************************************)
(* POST /users/signup  (basic: POST /signup)                               *)
(***************************************************************************)
NewUserRow(a, id, username, email, passwordHash, token) ==
  [id |-> id, username |-> username, email |-> email,
   password_hash |-> passwordHash, is_verified |-> FALSE,
   token |-> IF a = "full" THEN token ELSE Null]

UserSummary(row) ==
  [id |-> row.id, username |-> row.username, email |-> row.email]

(***************************************************************************)
(* The verification link.  The final server puts the token into the query  *)
(* string through encodeURIComponent, the first iteration as it is.        *)
(***************************************************************************)
Unreserved ==
  {"0", "1", "2", "3", "4", "5", "6", "7", "8", "9",
   "a", "b", "c", "d", "e", "f", "x", "z"}

RECURSIVE EncodeURIComponent(_)
EncodeURIComponent(str) ==
  IF str = <<>> THEN <<>>
  ELSE (IF Head(str) \in Unreserved
          THEN <<Head(str)>>
          ELSE <<"%", "4", "0">>) \o EncodeURIComponent(Tail(str))

SendVerificationEmail(a, userEmail, token) ==
  [to |-> userEmail,
   token |-> IF a = "full" THEN EncodeURIComponent(token) ELSE token]

(***************************************************************************)
(* The callback nodemailer runs when the dispatch has completed: it logs   *)
(* the error or the transport's response and does nothing else.  r is the  *)
(* response the signup request has already sent.                           *)
(***************************************************************************)
SendMailCallbackFailsSignup(s, r, mail, error) ==
  [s |-> IF error
           THEN [s EXCEPT !.db.users = { u \in @ : u.email # mail.to }]
           ELSE s,
   resp |-> IF error THEN InternalError ELSE r,
   logged |-> [to |-> mail.to, token |-> mail.token, error |-> error]]

SendMailCallback(s, r, mail, error) ==
  [s |-> s, resp |-> r,
   logged |-> [to |-> mail.to, token |-> mail.token, error |-> error]]

SignupHandlerNoUsernameCheck(s, username, email, password, fail) ==
  LET token == RandomHexToken(s.nextUserId)
      row == NewUserRow(s.app, s.nextUserId, username, email,
                        BcryptHash(password, BcryptCost), token)
      q1 == <<SelectUserByEmail>>
      q3 == <<SelectUserByEmail, InsertUser>>
  IN  IF Falsy(username) \/ Falsy(email) \/ Falsy(password)
        THEN Out(s, Message(400, "All fields are required"), <<>>)
      ELSE IF fail = 1 THEN Out(s, InternalError, q1)
      ELSE IF \E u \in s.db.users : SqlEq(u.email, email)
        THEN Out(s, Message(400, "This email is already associated with an account"), q1)
      ELSE IF fail = 3 THEN Out(s, InternalError, q3)
      ELSE Out([s EXCEPT !.db.users = @ \cup {row},
                         !.nextUserId = @ + 1,
                         !.outbox = @ \cup {SendVerificationEmail(s.app, email, token)}],
               Json(201, UserSummary(row)), q3)

SignupHandler(s, username, email, password, fail) ==
  LET token == RandomHexToken(s.nextUserId)
      row == NewUserRow(s.app, s.nextUserId, username, email,
                        BcryptHash(password, BcryptCost), token)
      q1 == <<SelectUserByEmail>>
      q2 == <<SelectUserByEmail, SelectUserByUsername>>
      q3 == <<SelectUserByEmail, SelectUserByUsername, InsertUser>>
  IN  IF Falsy(username) \/ Falsy(email) \/ Falsy(password)
        THEN Out(s, Message(400, "All fields are required"), <<>>)
      ELSE IF fail = 1 THEN Out(s, InternalError, q1)
      ELSE IF \E u \in s.db.users : SqlEq(u.email, email)
        THEN Out(s, Message(400, "This email is already associated with an account"), q1)
      ELSE IF fail = 2 THEN Out(s, InternalError, q2)
      ELSE IF \E u \in s.db.users : SqlEq(u.username, username)
        THEN Out(s, Message(400, "This username is already taken"), q2)
      ELSE IF fail = 3 THEN Out(s, InternalError, q3)
      ELSE Out([s EXCEPT !.db.users = @ \cup {row},
                         !.nextUserId = @ + 1,
                         !.outbox = @ \cup {SendVerificationEmail(s.app, email, token)}],
               Json(201, UserSummary(row)), q3)

(***************************************************************************)
(* GET /verify-email                                                       *)
(***************************************************************************)
VerifyMatches(a, row, token) ==
  IF a = "full" THEN SqlEq(row.token, token) ELSE SqlEq(row.email, token)

SetVerified(row) == [row EXCEPT !.is_verified = TRUE]

VerifyEmailHandler(s, token, fail) ==
  LET hit == { u \in s.db.users : VerifyMatches(s.app, u, token) }
  IN  IF Falsy(token) THEN Out(s, InvalidToken, <<>>)
      ELSE IF fail = 1 THEN Out(s, InternalError, <<UpdateVerified>>)
      ELSE Out([s EXCEPT !.db.users =
                  { IF u \in hit THEN SetVerified(u) ELSE u : u \in @ }],
               IF Cardinality(hit) = 0
                 THEN InvalidToken
                 ELSE Message(200, "Email verified successfully"),
               <<UpdateVerified>>)

(***************************************************************************)
(* POST /users/signin  (basic: POST /signin)                               *)
(***************************************************************************)
SignInQuery(inputName) ==
  IF Includes(inputName, "@") THEN SelectUserByEmail ELSE SelectUserByUsername

SignInRows(d, inputName) ==
  { u \in d.users :
      IF SignInQuery(inputName) = SelectUserByEmail
        THEN SqlEq(u.email, inputName)
        ELSE SqlEq(u.username, inputName) }

(***************************************************************************)
(* Date.  A Date holds a time value, milliseconds of UTC, and reads and    *)
(* writes its hour field in the local time of the process, whose zone is   *)
(* the environment's TZ.  Two zones are modelled: "UTC", and "DST", one    *)
(* hour ahead of UTC until daylight saving time ends at FallBack and equal *)
(* to UTC from then on.  A local time that occurs twice is read with the   *)
(* offset in force before the transition.                                  *)
(***************************************************************************)
Zones == {"UTC", "DST"}
SubSeconds == {0, 500}
MsPerSecond == 1000
MsPerHour == 3600000
FallBack == 7200 * MsPerSecond

OffsetBefore(zone) == IF zone = "DST" THEN MsPerHour ELSE 0
OffsetAfter(zone) == 0
UtcOffset(zone, time) ==
  IF time < FallBack THEN OffsetBefore(zone) ELSE OffsetAfter(zone)
LocalTime(zone, time) == time + UtcOffset(zone, time)
UTC(zone, tlocal) ==
  IF tlocal - OffsetBefore(zone) < FallBack
    THEN tlocal - OffsetBefore(zone)
    ELSE tlocal - OffsetAfter(zone)

NewDate(s) == [time |-> s.now * MsPerSecond + s.millis, zone |-> s.tz]
GetHours(date) == (LocalTime(date.zone, date.time) \div MsPerHour) % 24
SetHours(date, hour) ==
  [date EXCEPT !.time =
     UTC(date.zone,
         LocalTime(date.zone, @) + (hour - GetHours(date)) * MsPerHour)]
ToISOString(date) ==
  [hours |-> date.time \div MsPerHour,
   minutes |-> (date.time \div 60000) % 60,
   seconds |-> (date.time \div MsPerSecond) % 60,
   ms |-> date.time % MsPerSecond]

SetHoursPlusOne(date) == SetHours(date, GetHours(date) + 1)

SigninBody(a, token, date) ==
  IF a = "full"
    THEN [token |-> token, expires |-> ToISOString(SetHoursPlusOne(date)),
          status |-> "Success"]
    ELSE [token |-> token]

NoRowsResponseUserNotFound == Message(404, "User not found")

NoRowsResponse == InvalidCredentials

SigninDecisionSkipsVerified(a, user, password, t, date) ==
  IF ~BcryptCompare(password, user.password_hash) THEN InvalidCredentials
  ELSE Json(200, SigninBody(a, JwtSign(user.id, t), date))

SigninDecisionUnverified401(a, user, password, t, date) ==
  IF ~BcryptCompare(password, user.password_hash) THEN InvalidCredentials
  ELSE IF ~user.is_verified THEN Message(401, "Email not verified")
  ELSE Json(200, SigninBody(a, JwtSign(user.id, t), date))

SigninDecisionVerifiedFirst(a, user, password, t, date) ==
  IF ~user.is_verified THEN EmailNotVerified
  ELSE IF ~BcryptCompare(password, user.password_hash) THEN InvalidCredentials
  ELSE Json(200, SigninBody(a, JwtSign(user.id, t), date))

SigninDecision(a, user, password, t, date) ==
  IF ~BcryptCompare(password, user.password_hash) THEN InvalidCredentials
  ELSE IF ~user.is_verified THEN EmailNotVerified
  ELSE Json(200, SigninBody(a, JwtSign(user.id, t), date))

SigninFor(s, user, inputName, password) ==
  LET r == SigninDecision(s.app, user, password, s.now, NewDate(s))
  IN  Out(IF r.status = 200
            THEN [s EXCEPT !.issued = @ \cup {r.body.token}]
            ELSE s,
          r, <<SignInQuery(inputName)>>)

(* rows[0]: any row of the result can be the first. *)
SigninHandler(s, inputName, password, fail) ==
  IF Falsy(inputName) \/ Falsy(password)
    THEN {Out(s, Message(400, "Username/email and password are required"), <<>>)}
  ELSE IF fail = 1 THEN {Out(s, InternalError, <<SignInQuery(inputName)>>)}
  ELSE IF SignInRows(s.db, inputName) = {}
    THEN {Out(s, NoRowsResponse, <<SignInQuery(inputName)>>)}
  ELSE { SigninFor(s, user, inputName, password) :
           user \in SignInRows(s.db, inputName) }

(***************************************************************************)
(* DELETE /users/delete  (server.js: DELETE /delete-user)                  *)
(***************************************************************************)
DeleteUserStatementsProjectsFirst ==
  <<DeleteProjectsOfUser, DeleteEmailsOfUser, DeleteUserById>>

DeleteUserStatements ==
  <<DeleteEmailsOfUser, DeleteProjectsOfUser, DeleteUserById>>

Transaction(s, stmts, p1, p2, fail, rollbackFails, ok) ==
  LET all == <<Begin>> \o stmts \o <<Commit>>
  IN  IF fail = 0 \/ fail > Len(all)
        THEN Out([s EXCEPT !.db = ExecAll(all, s.db, p1, p2)], ok, all)
        ELSE Out([s EXCEPT !.db =
                    RolledBack(s.db, ExecAll(SubSeq(all, 1, fail - 1), s.db, p1, p2))],
                 IF rollbackFails THEN NoResponse ELSE InternalError,
                 SubSeq(all, 1, fail) \o <<Rollback>>)

DeleteUserBody(s, user, fail, rollbackFails) ==
  Transaction(s, DeleteUserStatements, user.userId, 0, fail, rollbackFails,
              Message(200, "User and associated projects and emails deleted successfully"))

DeleteUserHandler(s, authHeader, fail, rollbackFails) ==
  LET user == AuthenticateToken(authHeader, s.now).user
      body == DeleteUserBody(s, user, fail, rollbackFails)
  IN  Protected(s, authHeader, body)

(***************************************************************************)
(* POST /projects/create  (server.js: POST /create-project)                *)
(***************************************************************************)
NewProjectRow(id, userId, projectName) ==
  [id |-> id, user_id |-> userId, project_name |-> projectName]

CreateProjectBody(s, user, projectName, fail) ==
  LET row == NewProjectRow(s.nextProjectId, user.userId, projectName)
  IN  IF Falsy(projectName)
        THEN Out(s, Message(400, "Project name is required"), <<>>)
      ELSE IF fail = 1 THEN Out(s, InternalError, <<InsertProject>>)
      ELSE Out([s EXCEPT !.db.projects = @ \cup {row},
                         !.nextProjectId = @ + 1],
               Json(201, [id |-> row.id, project_name |-> row.project_name]),
               <<InsertProject>>)

CreateProjectHandler(s, authHeader, projectName, fail) ==
  LET user == AuthenticateToken(authHeader, s.now).user
      body == CreateProjectBody(s, user, projectName, fail)
  IN  Protected(s, authHeader, body)

(***************************************************************************)
(* DELETE /projects/delete/:id  (server.js: DELETE /delete-project/:id)    *)
(***************************************************************************)
DeleteProjectStatements == <<DeleteEmailsOfProject, DeleteProjectOwned>>

DeleteProjectBody(s, user, projectId, fail, rollbackFails) ==
  LET stmts == <<Begin>> \o DeleteProjectStatements
      working == ExecAll(stmts, s.db, projectId, user.userId)
      before == ExecAll(SubSeq(stmts, 1, Len(stmts) - 1), s.db, projectId, user.userId)
      rowCount == Cardinality(before.projects) - Cardinality(working.projects)
      caught == IF rollbackFails THEN NoResponse ELSE InternalError
      undone(k) == [s EXCEPT !.db =
                      RolledBack(s.db, ExecAll(SubSeq(stmts, 1, k), s.db,
                                               projectId, user.userId))]
  IN  IF fail \in 1..Len(stmts)
        THEN Out(undone(fail - 1), caught, SubSeq(stmts, 1, fail) \o <<Rollback>>)
      ELSE IF rowCount = 0
        THEN IF fail = Len(stmts) + 1
               THEN Out(undone(Len(stmts)), caught, stmts \o <<Rollback, Rollback>>)
               ELSE Out(undone(Len(stmts)), NotFoundOrNotOwned, stmts \o <<Rollback>>)
      ELSE IF fail = Len(stmts) + 1
        THEN Out(undone(Len(stmts)), caught, stmts \o <<Commit, Rollback>>)
      ELSE Out([s EXCEPT !.db = working],
               Message(200, "Project and associated emails deleted successfully"),
               stmts \o <<Commit>>)

DeleteProjectHandler(s, authHeader, projectId, fail, rollbackFails) ==
  LET user == AuthenticateToken(authHeader, s.now).user
      body == DeleteProjectBody(s, user, projectId, fail, rollbackFails)
  IN  Protected(s, authHeader, body)

(***************************************************************************)
(* POST /send-email/:projectId  (server.js: POST /collect-email/:projectId)*)
(***************************************************************************)
NewEmailRow(id, projectId, email) ==
  [id |-> id, project_id |-> projectId, email |-> email]

AddEmailHandler(s, projectId, email, fail) ==
  LET row == NewEmailRow(s.nextEmailId, projectId, email)
      q1 == <<SelectProjectById>>
      q2 == <<SelectProjectById, SelectEmailOfProject>>
      q3 == <<SelectProjectById, SelectEmailOfProject, InsertEmail>>
  IN  IF Falsy(email) THEN Out(s, Message(400, "Email is required"), <<>>)
      ELSE IF fail = 1 THEN Out(s, InternalError, q1)
      ELSE IF ~\E p \in s.db.projects : p.id = projectId
        THEN Out(s, Message(404, "Project not found"), q1)
      ELSE IF fail = 2 THEN Out(s, InternalError, q2)
      ELSE IF \E e \in s.db.project_emails :
                e.project_id = projectId /\ SqlEq(e.email, email)
        THEN Out(s, Message(400, "Email already associated with this project"), q2)
      ELSE IF fail = 3 THEN Out(s, InternalError, q3)
      ELSE Out([s EXCEPT !.db.project_emails = @ \cup {row},
                         !.nextEmailId = @ + 1],
               Json(201, row), q3)

(***************************************************************************)
(* GET /emails/get/:projectId  (server.js: GET /emails/:projectId)         *)
(***************************************************************************)
ProjectsWithId(d, projectId, userId) ==
  { p \in d.projects : p.id = projectId }

OwnedProjects(d, projectId, userId) ==
  { p \in d.projects : p.id = projectId /\ p.user_id = userId }

GetEmailsBodyAllRows(s, user, projectId, fail) ==
  LET q1 == <<SelectProjectOwned>>
      q2 == <<SelectProjectOwned, SelectEmailsOfProject>>
  IN  IF fail = 1 THEN Out(s, InternalError, q1)
      ELSE IF OwnedProjects(s.db, projectId, user.userId) = {}
        THEN Out(s, NotFoundOrNotOwned, q1)
      ELSE IF fail = 2 THEN Out(s, InternalError, q2)
      ELSE Out(s, Json(200, [rows |-> s.db.project_emails]), q2)

GetEmailsBody(s, user, projectId, fail) ==
  LET q1 == <<SelectProjectOwned>>
      q2 == <<SelectProjectOwned, SelectEmailsOfProject>>
  IN  IF fail = 1 THEN Out(s, InternalError, q1)
      ELSE IF OwnedProjects(s.db, projectId, user.userId) = {}
        THEN Out(s, NotFoundOrNotOwned, q1)
      ELSE IF fail = 2 THEN Out(s, InternalError, q2)
      ELSE Out(s, Json(200, [rows |-> { e \in s.db.project_emails :
                                          e.project_id = projectId }]), q2)

GetEmailsHandler(s, authHeader, projectId, fail) ==
  LET user == AuthenticateToken(authHeader, s.now).user
      body == GetEmailsBody(s, user, projectId, fail)
  IN  Protected(s, authHeader, body)

(***************************************************************************)
(* DELETE /projects/:projectId/emails/delete/:emailId                      *)
(***************************************************************************)
DeleteEmailBody(s, user, projectId, emailId, fail) ==
  LET q1 == <<SelectProjectOwned>>
      q2 == <<SelectProjectOwned, DeleteEmailById>>
      after == Exec(DeleteEmailById, s.db, emailId, projectId)
      rowCount == Cardinality(s.db.project_emails) - Cardinality(after.project_emails)
  IN  IF fail = 1 THEN Out(s, InternalError, q1)
      ELSE IF OwnedProjects(s.db, projectId, user.userId) = {}
        THEN Out(s, NotFoundOrNotOwned, q1)
      ELSE IF fail = 2 THEN Out(s, InternalError, q2)
      ELSE IF rowCount = 0
        THEN Out(s, Message(404, "Email not found or not associated with this project"), q2)
      ELSE Out([s EXCEPT !.db = after], Message(200, "Email deleted successfully"), q2)

DeleteEmailHandler(s, authHeader, projectId, emailId, fail) ==
  LET user == AuthenticateToken(authHeader, s.now).user
      body == DeleteEmailBody(s, user, projectId, emailId, fail)
  IN  Protected(s, authHeader, body)

(***************************************************************************)
(* GET /get-users of the first iterations: SELECT * FROM users, and the    *)
(* rows as the response body.                                              *)
(***************************************************************************)
SelectAllUsers == "SELECT * FROM users"

GetUsersHandler(s, fail) ==
  IF fail = 1 THEN Out(s, InternalError, <<SelectAllUsers>>)
  ELSE Out(s, Json(200, [rows |-> s.db.users]), <<SelectAllUsers>>)

(***************************************************************************)
(* The two stubs of the repository: POST /signup of the mysql iteration    *)
(* (server.js), whose try block ends after bcrypt.hash without sending     *)
(* anything, and GET /signup (part_001), whose body only builds a query    *)
(* string.                                                                 *)
(***************************************************************************)
StubSignupHandler(s, username, email, password, hashFails) ==
  IF Falsy(username) \/ Falsy(email) \/ Falsy(password)
    THEN Out(s, Message(400, "All the fields are required"), <<>>)
  ELSE IF hashFails THEN Out(s, InternalError, <<>>)
  ELSE Out(s, NoResponse, <<>>)

StubGetSignupHandler(s) == Out(s, NoResponse, <<>>)

(***************************************************************************)
(* The state machine.                                                      *)
(***************************************************************************)
EmptyDb == [users |-> {}, projects |-> {}, project_emails |-> {}]

S == [app |-> app, db |-> db, outbox |-> outbox, issued |-> issued,
      now |-> now, nextUserId |-> nextUserId,
      nextProjectId |-> nextProjectId, nextEmailId |-> nextEmailId,
      millis |-> millis, tz |-> tz]

WithinBounds(s) ==
  /\ s.nextUserId <= MaxUsers + 1
  /\ s.nextProjectId <= MaxProjects + 1
  /\ s.nextEmailId <= MaxProjectEmails + 1

Apply(o) ==
  /\ WithinBounds(o.s)
  /\ app' = o.s.app
  /\ db' = o.s.db
  /\ outbox' = o.s.outbox
  /\ issued' = o.s.issued
  /\ now' = o.s.now
  /\ nextUserId' = o.s.nextUserId
  /\ nextProjectId' = o.s.nextProjectId
  /\ nextEmailId' = o.s.nextEmailId
  /\ resp' = o.resp
  /\ UNCHANGED <<mailLog, tx, inflight, millis, tz>>

(***************************************************************************)
(* The pg client is one connection: a transaction opened on it by BEGIN is *)
(* the transaction of every query sent through it until COMMIT or          *)
(* ROLLBACK.  tx remembers the tables as they were at BEGIN.               *)
(***************************************************************************)
NoTx == [open |-> FALSE, atBegin |-> EmptyDb]

Req(kind, pc, userId, projectId, username, email, password, token) ==
  [kind |-> kind, pc |-> pc, userId |-> userId, projectId |-> projectId,
   username |-> username, email |-> email, password |-> password,
   token |-> token, resp |-> NoResponse]

Idle == Req("idle", "idle", 0, 0, <<>>, <<>>, <<>>, <<>>)

NothingInFlight == [i \in 1..MaxInflight |-> Idle]

Init ==
  /\ app \in Apps
  /\ db = EmptyDb
  /\ outbox = {}
  /\ issued = {}
  /\ now = 0
  /\ nextUserId = 1
  /\ nextProjectId = 1
  /\ nextEmailId = 1
  /\ resp = NoResponse
  /\ mailLog = {}
  /\ tx = NoTx
  /\ inflight = NothingInFlight
  /\ millis = 0
  /\ tz = "UTC"

Tick ==
  /\ TicksAt(now) < MaxTicks
  /\ now' = now + TickStep(now)
  /\ UNCHANGED <<app, db, outbox, issued, nextUserId, nextProjectId,
                 nextEmailId, resp, mailLog, tx, inflight, millis, tz>>

Signup ==
  \E o \in { SignupHandler(S, u, e, p, f) :
               u \in UsernameInputs, e \in EmailInputs,
               p \in SignupPasswords, f \in 0..3 } : Apply(o)

VerifyEmail ==
  \E o \in { VerifyEmailHandler(S, t, f) : t \in TokenInputs, f \in 0..1 } :
    Apply(o)

Signin ==
  \E o \in UNION { SigninHandler(S, i, p, f) :
                     i \in UsernameInputs \cup EmailInputs,
                     p \in PasswordInputs, f \in 0..1 } :
    /\ Cardinality(o.s.issued) <= MaxSessions
    /\ Apply(o)

DeleteUser ==
  /\ app = "full"
  /\ \E o \in { DeleteUserHandler(S, h, f, rf) :
                  h \in AuthHeaders, f \in 0..5, rf \in BOOLEAN } : Apply(o)

CreateProject ==
  /\ app = "full"
  /\ \E o \in { CreateProjectHandler(S, h, n, f) :
                  h \in AuthHeaders, n \in ProjectNameInputs, f \in 0..1 } :
       Apply(o)

DeleteProject ==
  /\ app = "full"
  /\ \E o \in { DeleteProjectHandler(S, h, p, f, rf) :
                  h \in AuthHeaders, p \in 1..MaxProjects, f \in 0..4,
                  rf \in BOOLEAN } : Apply(o)

AddEmail ==
  /\ app = "full"
  /\ \E o \in { AddEmailHandler(S, p, e, f) :
                  p \in 1..MaxProjects, e \in ProjectEmailInputs, f \in 0..3 } :
       Apply(o)

GetEmails ==
  /\ app = "full"
  /\ \E o \in { GetEmailsHandler(S, h, p, f) :
                  h \in AuthHeaders, p \in 1..MaxProjects, f \in 0..2 } :
       Apply(o)

DeleteEmail ==
  /\ app = "full"
  /\ \E o \in { DeleteEmailHandler(S, h, p, e, f) :
                  h \in AuthHeaders, p \in 1..MaxProjects,
                  e \in 1..MaxProjectEmails, f \in 0..2 } : Apply(o)

(***************************************************************************)
(* Spec: the signup / verify-email / signin handshake and delete-user,     *)
(* from the empty database, in both iterations of the server.              *)
(***************************************************************************)
Next ==
  \/ Tick
  \/ Signup
  \/ VerifyEmail
  \/ Signin
  \/ DeleteUser

Spec == Init /\ [][Next]_vars

(***************************************************************************)
(* SpecProjects: the protected routes of the full server.  It starts in    *)
(* a state the server reaches by signup(a, a@x, p), signup(b, b@x, p), the  *)
(* two verify-email requests with the mailed tokens, a signin of user a,   *)
(* one hour passing, and a signin of each user: user a then holds an       *)
(* expired and a valid token, user b a valid one.  The clock stands still. *)
(***************************************************************************)
SeededUsers ==
  LET a == <<"a">>
      b == <<"b">>
      p == <<"p">>
      s0 == [app |-> "full", db |-> EmptyDb, outbox |-> {}, issued |-> {},
             now |-> 0, nextUserId |-> 1, nextProjectId |-> 1,
             nextEmailId |-> 1, millis |-> 0, tz |-> "UTC"]
      s1 == SignupHandler(s0, a, <<"a", "@", "x">>, p, 0).s
      s2 == SignupHandler(s1, b, <<"b", "@", "x">>, p, 0).s
      s3 == VerifyEmailHandler(s2, RandomHexToken(1), 0).s
  IN  VerifyEmailHandler(s3, RandomHexToken(2), 0)

Seeded ==
  LET a == <<"a">>
      b == <<"b">>
      p == <<"p">>
      row(s, id) == CHOOSE u \in s.db.users : u.id = id
      s4 == SeededUsers.s
      s5 == SigninFor(s4, row(s4, 1), a, p).s
      s6 == [s5 EXCEPT !.now = @ + TickStep(@)]
      s7 == [s6 EXCEPT !.now = @ + TickStep(@)]
      s8 == SigninFor(s7, row(s7, 1), a, p).s
  IN  SigninFor(s8, row(s8, 2), b, p)

InitProjects ==
  /\ app = Seeded.s.app
  /\ db = Seeded.s.db
  /\ outbox = Seeded.s.outbox
  /\ issued = Seeded.s.issued
  /\ now = Seeded.s.now
  /\ nextUserId = Seeded.s.nextUserId
  /\ nextProjectId = Seeded.s.nextProjectId
  /\ nextEmailId = Seeded.s.nextEmailId
  /\ resp = Seeded.resp
  /\ mailLog = {}
  /\ tx = NoTx
  /\ inflight = NothingInFlight
  /\ millis = 0
  /\ tz = "UTC"

NextProjects ==
  \/ DeleteUser
  \/ CreateProject
  \/ DeleteProject
  \/ AddEmail

SpecProjects == InitProjects /\ [][NextProjects]_vars

(***************************************************************************)
(* SpecMail: signups and the completion, at any later time and with either *)
(* outcome, of the verification emails they dispatched.                    *)
(***************************************************************************)
Dispatched == { [to |-> l.to, token |-> l.token] : l \in mailLog }

MailDone ==
  \E mail \in outbox \ Dispatched, error \in BOOLEAN :
    LET c == SendMailCallback(S, resp, mail, error)
    IN  /\ mailLog' = mailLog \cup {c.logged}
        /\ db' = c.s.db
        /\ resp' = c.resp
        /\ UNCHANGED <<app, outbox, issued, now, nextUserId, nextProjectId,
                       nextEmailId, tx, inflight, millis, tz>>

GetUsers ==
  /\ app = "basic"
  /\ \E o \in { GetUsersHandler(S, f) : f \in 0..1 } : Apply(o)

NextMail ==
  \/ Signup
  \/ MailDone
  \/ GetUsers

SpecMail == Init /\ [][NextMail]_vars

(***************************************************************************)
(* SpecEmails: the project email list (add, list, delete one) from the     *)
(* same seeded state.                                                      *)
(***************************************************************************)
NextEmails ==
  \/ CreateProject
  \/ AddEmail
  \/ GetEmails
  \/ DeleteEmail

SpecEmails == InitProjects /\ [][NextEmails]_vars

(***************************************************************************)
(* SpecClock: signin and the auth gate as time passes, for each zone the   *)
(* process can run in and with requests arriving at any millisecond of a   *)
(* second.  It starts after the two signups and verifications of Seeded,   *)
(* before anybody signed in.                                               *)
(***************************************************************************)
InitClock ==
  /\ app = SeededUsers.s.app
  /\ db = SeededUsers.s.db
  /\ outbox = SeededUsers.s.outbox
  /\ issued = SeededUsers.s.issued
  /\ now = SeededUsers.s.now
  /\ nextUserId = SeededUsers.s.nextUserId
  /\ nextProjectId = SeededUsers.s.nextProjectId
  /\ nextEmailId = SeededUsers.s.nextEmailId
  /\ resp = SeededUsers.resp
  /\ mailLog = {}
  /\ tx = NoTx
  /\ inflight = NothingInFlight
  /\ millis \in SubSeconds
  /\ tz \in Zones

Elapse ==
  /\ TicksAt(now) < MaxTicks
  /\ now' = now + TickStep(now)
  /\ millis' \in SubSeconds
  /\ UNCHANGED <<app, db, outbox, issued, nextUserId, nextProjectId,
                 nextEmailId, resp, mailLog, tx, inflight, tz>>

NextClock ==
  \/ Elapse
  \/ Signin
  \/ GetEmails

SpecClock == InitClock /\ [][NextClock]_vars

(***************************************************************************)
(* SpecSignin: the handshake with the usernames and emails signup lets     *)
(* through: it tests only that the fields are non-empty, so a username     *)
(* may contain "@" and an email may lack it.                               *)
(***************************************************************************)
UnvalidatedUsernames == { <<"a">>, <<"b">>, <<"a", "@", "x">> }
UnvalidatedEmails == { <<"a", "@", "x">>, <<"b">> }

SignupUnvalidated ==
  \E o \in { SignupHandler(S, u, e, p, f) :
               u \in UnvalidatedUsernames, e \in UnvalidatedEmails,
               p \in SignupPasswords \cup { <<"q">> }, f \in 0..3 } : Apply(o)

NextSignin ==
  \/ SignupUnvalidated
  \/ VerifyEmail
  \/ Signin

SpecSignin == Init /\ [][NextSignin]_vars

(***************************************************************************)
(* Requests in flight.  A handler runs until its next await of             *)
(* client.query; the query is executed on the one connection, and the      *)
(* handler continues up to its next query or its response.  Between two    *)
(* queries of one request the queries of the others may run.               *)
(***************************************************************************)
PgBegin(t, d) == IF t.open THEN t ELSE [open |-> TRUE, atBegin |-> d]

PgRollback(t, d) == IF t.open THEN RolledBack(t.atBegin, d) ELSE d

Committed == IF tx.open THEN tx.atBegin ELSE db

Sent(r, response) == [r EXCEPT !.pc = "done", !.resp = response]

Goto(r, pc) == [r EXCEPT !.pc = pc]

Cont(r, s, t) == [r |-> r, s |-> s, t |-> t]

StartSignup(username, email, password) ==
  LET r == Req("signup", "checkEmail", 0, 0, username, email, password, <<>>)
  IN  IF Falsy(username) \/ Falsy(email) \/ Falsy(password)
        THEN Sent(r, Message(400, "All fields are required"))
        ELSE r

StartAddEmail(projectId, email) ==
  LET r == Req("addEmail", "checkProject", 0, projectId, <<>>, email, <<>>, <<>>)
  IN  IF Falsy(email) THEN Sent(r, Message(400, "Email is required")) ELSE r

StartProtected(kind, pc, authHeader, t, projectId) ==
  LET g == AuthenticateToken(authHeader, t)
      r == Req(kind, pc, g.user.userId, projectId, <<>>, <<>>, <<>>, <<>>)
  IN  IF g.next THEN r ELSE Sent(r, g.resp)

StartVerify(token) ==
  LET r == Req("verifyEmail", "update", 0, 0, <<>>, <<>>, <<>>, token)
  IN  IF Falsy(token) THEN Sent(r, InvalidToken) ELSE r

VerifyStep(r, s, t) ==
  LET hit == { u \in s.db.users : VerifyMatches(s.app, u, r.token) }
  IN  Cont(Sent(r, IF Cardinality(hit) = 0
                     THEN InvalidToken
                     ELSE Message(200, "Email verified successfully")),
           [s EXCEPT !.db.users =
              { IF u \in hit THEN SetVerified(u) ELSE u : u \in @ }],
           t)

SignupStep(r, s, t) ==
  LET token == RandomHexToken(s.nextUserId)
      row == NewUserRow(s.app, s.nextUserId, r.username, r.email,
                        BcryptHash(r.password, BcryptCost), token)
  IN  CASE r.pc = "checkEmail" ->
             IF \E u \in s.db.users : SqlEq(u.email, r.email)
               THEN Cont(Sent(r, Message(400,
                      "This email is already associated with an account")), s, t)
               ELSE Cont(Goto(r, "checkUsername"), s, t)
        [] r.pc = "checkUsername" ->
             IF \E u \in s.db.users : SqlEq(u.username, r.username)
               THEN Cont(Sent(r, Message(400, "This username is already taken")),
                         s, t)
               ELSE Cont(Goto(r, "insert"), s, t)
        [] r.pc = "insert" ->
             Cont(Sent(r, Json(201, UserSummary(row))),
                  [s EXCEPT !.db.users = @ \cup {row},
                            !.nextUserId = @ + 1,
                            !.outbox = @ \cup
                                         {SendVerificationEmail(s.app, r.email, token)}],
                  t)

AddEmailStep(r, s, t) ==
  LET row == NewEmailRow(s.nextEmailId, r.projectId, r.email)
  IN  CASE r.pc = "checkProject" ->
             IF ~\E p \in s.db.projects : p.id = r.projectId
               THEN Cont(Sent(r, Message(404, "Project not found")), s, t)
               ELSE Cont(Goto(r, "checkEmail"), s, t)
        [] r.pc = "checkEmail" ->
             IF \E e \in s.db.project_emails :
                  e.project_id = r.projectId /\ SqlEq(e.email, r.email)
               THEN Cont(Sent(r, Message(400,
                      "Email already associated with this project")), s, t)
               ELSE Cont(Goto(r, "insert"), s, t)
        [] r.pc = "insert" ->
             Cont(Sent(r, Json(201, row)),
                  [s EXCEPT !.db.project_emails = @ \cup {row},
                            !.nextEmailId = @ + 1],
                  t)

GetEmailsStep(r, s, t) ==
  CASE r.pc = "checkProject" ->
         IF OwnedProjects(s.db, r.projectId, r.userId) = {}
           THEN Cont(Sent(r, NotFoundOrNotOwned), s, t)
           ELSE Cont(Goto(r, "getEmails"), s, t)
    [] r.pc = "getEmails" ->
         Cont(Sent(r, Json(200, [rows |-> { e \in s.db.project_emails :
                                              e.project_id = r.projectId }])),
              s, t)

DeleteProjectStep(r, s, t) ==
  LET after == Exec(DeleteProjectOwned, s.db, r.projectId, r.userId)
      rowCount == Cardinality(s.db.projects) - Cardinality(after.projects)
  IN  CASE r.pc = "begin" ->
             Cont(Goto(r, "deleteEmails"), s, PgBegin(t, s.db))
        [] r.pc = "deleteEmails" ->
             Cont(Goto(r, "deleteProject"),
                  [s EXCEPT !.db = Exec(DeleteEmailsOfProject, @, r.projectId, 0)],
                  t)
        [] r.pc = "deleteProject" ->
             Cont(Goto(r, IF rowCount = 0 THEN "rollback" ELSE "commit"),
                  [s EXCEPT !.db = after], t)
        [] r.pc = "rollback" ->
             Cont(Sent(r, NotFoundOrNotOwned),
                  [s EXCEPT !.db = PgRollback(t, @)], NoTx)
        [] r.pc = "commit" ->
             Cont(Sent(r, Message(200,
                    "Project and associated emails deleted successfully")),
                  s, NoTx)

DeleteUserStep(r, s, t) ==
  CASE r.pc = "begin" ->
         Cont(Goto(r, "deleteEmails"), s, PgBegin(t, s.db))
    [] r.pc = "deleteEmails" ->
         Cont(Goto(r, "deleteProjects"),
              [s EXCEPT !.db = Exec(DeleteUserStatements[1], @, r.userId, 0)], t)
    [] r.pc = "deleteProjects" ->
         Cont(Goto(r, "deleteUser"),
              [s EXCEPT !.db = Exec(DeleteUserStatements[2], @, r.userId, 0)], t)
    [] r.pc = "deleteUser" ->
         Cont(Goto(r, "commit"),
              [s EXCEPT !.db = Exec(DeleteUserStatements[3], @, r.userId, 0)], t)
    [] r.pc = "commit" ->
         Cont(Sent(r, Message(200,
                "User and associated projects and emails deleted successfully")),
              s, NoTx)

(***************************************************************************)
(* SpecConcurrent: up to MaxInflight requests handled at the same time.    *)
(* It starts from the seeded state after user 1 created project 1, one     *)
(* email was collected for it, and a third user signed up who has not yet  *)
(* verified their email.                                                   *)
(***************************************************************************)
SeededProject ==
  LET s1 == CreateProjectBody(Seeded.s, [userId |-> 1], <<"n">>, 0).s
      s2 == SignupHandler(s1, <<"e">>, <<"e", "@", "x">>, <<"p">>, 0).s
  IN  AddEmailHandler(s2, 1, <<"a", "@", "x">>, 0)

PendingTokens == { u.token : u \in { v \in db.users : ~v.is_verified } }

InitConcurrent ==
  /\ app = SeededProject.s.app
  /\ db = SeededProject.s.db
  /\ outbox = SeededProject.s.outbox
  /\ issued = SeededProject.s.issued
  /\ now = SeededProject.s.now
  /\ nextUserId = SeededProject.s.nextUserId
  /\ nextProjectId = SeededProject.s.nextProjectId
  /\ nextEmailId = SeededProject.s.nextEmailId
  /\ resp = SeededProject.resp
  /\ mailLog = {}
  /\ tx = NoTx
  /\ inflight = NothingInFlight
  /\ millis = 0
  /\ tz = "UTC"

LiveHeaders == { <<"Bearer", t>> : t \in { i \in issued : now < i.exp } }

ConcurrentRequests ==
  { StartSignup(<<"c">>, e, <<"p">>) :
      e \in { <<"c", "@", "x">>, <<"d", "@", "x">> } }
    \cup { StartAddEmail(1, <<"b", "@", "x">>) }
    \cup { StartVerify(k) : k \in PendingTokens }
    \cup { StartProtected("deleteProject", "begin", h, now, 1) : h \in LiveHeaders }
    \cup { StartProtected("getEmails", "checkProject", h, now, 1) : h \in LiveHeaders }
    \cup { StartProtected("deleteUser", "begin", h, now, 0) : h \in LiveHeaders }

StartRequest ==
  \E i \in 1..MaxInflight, r \in ConcurrentRequests :
    /\ inflight[i] = Idle
    /\ \A j \in 1..(i - 1) : inflight[j] # Idle
    /\ inflight' = [inflight EXCEPT ![i] = r]
    /\ resp' = IF r.pc = "done" THEN r.resp ELSE resp
    /\ UNCHANGED <<app, db, outbox, issued, now, nextUserId, nextProjectId,
                   nextEmailId, mailLog, tx, millis, tz>>

Running(i, kind) == inflight[i].kind = kind /\ inflight[i].pc # "done"

Advance(i, c) ==
  /\ inflight' = [inflight EXCEPT ![i] = c.r]
  /\ db' = c.s.db
  /\ outbox' = c.s.outbox
  /\ nextUserId' = c.s.nextUserId
  /\ nextEmailId' = c.s.nextEmailId
  /\ tx' = c.t
  /\ resp' = IF c.r.pc = "done" THEN c.r.resp ELSE resp
  /\ UNCHANGED <<app, issued, now, nextProjectId, mailLog, millis, tz>>

StepSignup ==
  \E i \in 1..MaxInflight :
    Running(i, "signup") /\ Advance(i, SignupStep(inflight[i], S, tx))

StepAddEmail ==
  \E i \in 1..MaxInflight :
    Running(i, "addEmail") /\ Advance(i, AddEmailStep(inflight[i], S, tx))

StepVerify ==
  \E i \in 1..MaxInflight :
    Running(i, "verifyEmail") /\ Advance(i, VerifyStep(inflight[i], S, tx))

StepGetEmails ==
  \E i \in 1..MaxInflight :
    Running(i, "getEmails") /\ Advance(i, GetEmailsStep(inflight[i], S, tx))

StepDeleteProject ==
  \E i \in 1..MaxInflight :
    Running(i, "deleteProject")
      /\ Advance(i, DeleteProjectStep(inflight[i], S, tx))

StepDeleteUser ==
  \E i \in 1..MaxInflight :
    Running(i, "deleteUser") /\ Advance(i, DeleteUserStep(inflight[i], S, tx))

NextConcurrent ==
  \/ StartRequest
  \/ StepSignup
  \/ StepAddEmail
  \/ StepVerify
  \/ StepGetEmails
  \/ StepDeleteProject
  \/ StepDeleteUser

SpecConcurrent == InitConcurrent /\ [][NextConcurrent]_vars

(***************************************************************************)
(* Properties.  Each quantifies over the requests a client can send in the *)
(* current state and reads the outcome the handler gives them.             *)
(***************************************************************************)
SigninInputs == UsernameInputs \cup EmailInputs
Present(S1) == S1 \ { <<>> }
Identifies(u, inputName) == u.username = inputName \/ u.email = inputName
PasswordOf(u) == u.password_hash.of
HasToken(r) == "token" \in DOMAIN r.body

(* C1: signin answers with a bearer token only when a stored user matches
   the identifier, is verified and has the presented password; every other
   signin outcome carries no token and issues none. *)
C1_SessionOnlyForVerifiedUser ==
  \A i \in SigninInputs, p \in PasswordInputs, f \in 0..1 :
    \A o \in SigninHandler(S, i, p, f) :
      /\ o.s.issued # issued => HasToken(o.resp)
      /\ HasToken(o.resp) =>
           /\ o.resp.status = 200
           /\ o.resp.body.token.sig = JwtSecret
           /\ o.s.issued = issued \cup {o.resp.body.token}
           /\ \E u \in db.users :
                /\ Identifies(u, i)
                /\ u.is_verified
                /\ PasswordOf(u) = p
                /\ o.resp.body.token.userId = u.id
      /\ o.resp.status # 200 => ~HasToken(o.resp)

C1_Witness ==
  /\ HasToken(resp)
  /\ resp.body.token \in issued
  /\ \E u \in db.users : u.is_verified /\ u.id = resp.body.token.userId

(* C2: a signup with non-empty username, email and password, neither yet
   stored, creates exactly one user, with verified = false and a non-null
   pending verification token, and signin for that user issues no session
   while its verified flag is false. *)
C2_SignupCreatesPendingUser ==
  /\ \A u \in Present(UsernameInputs), e \in Present(EmailInputs),
        p \in Present(SignupPasswords) :
       LET o == SignupHandler(S, u, e, p, 0)
           new == o.s.db.users \ db.users
       IN  (~\E r \in db.users : r.username = u \/ r.email = e) =>
             /\ o.resp.status = 201
             /\ db.users \subseteq o.s.db.users
             /\ Cardinality(new) = 1
             /\ \A r \in new : r.username = u /\ r.email = e /\ ~r.is_verified
  /\ (resp.status = 201 /\ "username" \in DOMAIN resp.body) =>
       \E r \in db.users :
         /\ r.id = resp.body.id
         /\ ~r.is_verified
         /\ r.token # Null
  /\ \A r \in db.users :
       ~r.is_verified =>
         \A i \in {r.username, r.email}, p \in PasswordInputs :
           \A o \in SigninHandler(S, i, p, 0) : ~HasToken(o.resp)

(* C3: consuming a valid verification token flips the holder's verified
   flag false -> true exactly once; a verify-email request with an
   already-consumed token, or with an unknown one, fails with InvalidToken
   and changes no state. *)
C3_TokenConsumedOnce ==
  app = "full" =>
    \A t \in Present(TokenInputs) :
      LET o == VerifyEmailHandler(S, t, 0)
          pending == { u \in db.users : u.token = t /\ ~u.is_verified }
      IN  IF pending # {}
            THEN /\ o.resp.status = 200
                 /\ o.s.db.users =
                      { IF u \in pending THEN [u EXCEPT !.is_verified = TRUE]
                                         ELSE u : u \in db.users }
            ELSE /\ o.resp = InvalidToken
                 /\ o.s = S

(* C4: verify-email sets verified = true only for the user whose stored
   pending token equals the presented value and leaves every other user and
   every other field unchanged; when no user holds the presented value it
   fails with InvalidToken.  Presenting an email address, or any value
   other than the issued token, verifies nobody. *)
C4_VerifyOnlyTokenHolder ==
  \A t \in Present(TokenInputs), f \in 0..1 :
    LET o == VerifyEmailHandler(S, t, f)
        holders == { u \in db.users : u.token = t }
    IN  /\ o.s.db.users \in
             { db.users,
               { IF u \in holders THEN [u EXCEPT !.is_verified = TRUE]
                                  ELSE u : u \in db.users } }
        /\ o.s.db.projects = db.projects
        /\ o.s.db.project_emails = db.project_emails
        /\ o.s.issued = issued /\ o.s.outbox = outbox
        /\ (holders = {} /\ f = 0) => o.resp = InvalidToken

(* C5 as stated: signin changes no stored state, and for an unverified user
   with correct credentials it fails with EmailNotVerified as HTTP 403. *)
C5_UnverifiedIsForbidden403 ==
  \A i \in Present(SigninInputs), p \in Present(PasswordInputs) :
    \A o \in SigninHandler(S, i, p, 0) :
      /\ o.s.db = db
      /\ (\E u \in db.users :
            Identifies(u, i) /\ PasswordOf(u) = p /\ ~u.is_verified) =>
           o.resp.status = 403

(* C5 amended: signin changes no stored state, and for an unverified user
   with correct credentials it fails with EmailNotVerified reported with
   HTTP status 400, the status of the validation errors; it is neither 403
   nor 401. *)
C5_UnverifiedIs400 ==
  \A i \in SigninInputs, p \in PasswordInputs, f \in 0..1 :
    \A o \in SigninHandler(S, i, p, f) :
      /\ o.s.db = db
      /\ o.s.outbox = outbox
      /\ o.s.nextUserId = nextUserId
      /\ (/\ f = 0
          /\ \E u \in db.users :
               Identifies(u, i) /\ PasswordOf(u) = p /\ ~u.is_verified) =>
           /\ o.resp = Message(400, "Email not verified")
           /\ o.s = S

C5_Witness ==
  /\ resp = EmailNotVerified
  /\ \E u \in db.users : ~u.is_verified

(* C6: in every store state, a signin whose identifier matches no user and
   a signin with an existing identifier and a wrong password get the
   identical response, status and payload. *)
C6_UnknownAndWrongPasswordAlike ==
  \A i1 \in Present(SigninInputs), i2 \in Present(SigninInputs),
     p1 \in Present(PasswordInputs), p2 \in Present(PasswordInputs) :
    ( /\ ~\E u \in db.users : Identifies(u, i1)
      /\ \E u \in db.users : Identifies(u, i2)
      /\ \A u \in db.users : Identifies(u, i2) => PasswordOf(u) # p2 ) =>
      /\ { o.resp : o \in SigninHandler(S, i1, p1, 0) } =
           { o.resp : o \in SigninHandler(S, i2, p2, 0) }
      /\ \A o \in SigninHandler(S, i1, p1, 0) : o.resp = InvalidCredentials

C6_Witness ==
  /\ resp = InvalidCredentials
  /\ db.users # {}
  /\ \E i \in Present(SigninInputs) : ~\E u \in db.users : Identifies(u, i)

ProtectedOutcomes(h) ==
  { DeleteUserHandler(S, h, f, rf) : f \in 0..5, rf \in BOOLEAN }
    \cup { CreateProjectHandler(S, h, n, f) : n \in ProjectNameInputs, f \in 0..1 }
    \cup { DeleteProjectHandler(S, h, p, f, rf) :
             p \in 1..MaxProjects, f \in 0..4, rf \in BOOLEAN }
    \cup { GetEmailsHandler(S, h, p, f) : p \in 1..MaxProjects, f \in 0..2 }
    \cup { DeleteEmailHandler(S, h, p, e, f) :
             p \in 1..MaxProjects, e \in 1..MaxProjectEmails, f \in 0..2 }

(* C7: the body of a protected handler runs only for a bearer token that is
   present, signed with the process secret and not expired, and it runs as
   the user that token carries; a missing token is answered 401, an invalid
   or expired one 403, both without running the handler, issuing a query or
   changing state. *)
C7_AuthGate ==
  \A h \in AuthHeaders :
    LET present == Len(h) >= 2
        valid == present /\ h[2].sig = JwtSecret /\ now < h[2].exp
    IN  \A o \in ProtectedOutcomes(h) :
          /\ o.ran <=> valid
          /\ o.ran =>
               /\ o.user.userId = h[2].userId
               /\ \A p \in o.s.db.projects \ db.projects :
                    p.user_id = h[2].userId
          /\ ~present => o.resp = SendStatus(401)
          /\ (present /\ ~valid) => o.resp = SendStatus(403)
          /\ ~o.ran => o.s = S /\ o.sql = <<>>

C7_Witness ==
  /\ resp = SendStatus(403)
  /\ \E t \in issued : now >= t.exp
  /\ \E t \in issued : now < t.exp /\ \E p \in db.projects : p.user_id = t.userId

OwnedBy(userId) == { p \in db.projects : p.user_id = userId }

(* C8: a delete-user answered with success removes the user of the token,
   every project that user owns and every project email under those
   projects, and leaves every other user, project and project email
   unchanged. *)
C8_DeleteUserCascade ==
  \A h \in AuthHeaders, f \in 0..5, rf \in BOOLEAN :
    LET o == DeleteUserHandler(S, h, f, rf)
        U == o.user.userId
        gone == { p.id : p \in OwnedBy(U) }
    IN  o.resp.status = 200 =>
          /\ o.ran
          /\ o.s.db.users = { u \in db.users : u.id # U }
          /\ o.s.db.projects = { p \in db.projects : p.user_id # U }
          /\ o.s.db.project_emails =
               { e \in db.project_emails : e.project_id \notin gone }

DeleteUserOk ==
  Message(200, "User and associated projects and emails deleted successfully")

C8_Witness ==
  /\ resp = DeleteUserOk
  /\ Cardinality(db.users) = 1
  /\ nextProjectId = 3 /\ nextEmailId = 3
  /\ Cardinality(db.projects) = 1
  /\ Cardinality(db.project_emails) = 1
  /\ \A e \in db.project_emails : \E p \in db.projects : p.id = e.project_id
  /\ \A p \in db.projects : \E u \in db.users : u.id = p.user_id

(* C9: delete-user is all-or-nothing: when one of its three delete steps or
   the commit fails, the store is as before the request and the caller gets
   InternalError; the steps are issued in the order emails, projects,
   user. *)
C9_DeleteUserAllOrNothing ==
  \A h \in AuthHeaders, f \in 0..5, rf \in BOOLEAN :
    LET o == DeleteUserHandler(S, h, f, rf)
        steps == <<Begin, DeleteEmailsOfUser, DeleteProjectsOfUser,
                   DeleteUserById, Commit>>
    IN  o.ran =>
          /\ f = 0 => o.sql = steps
          /\ f >= 1 =>
               /\ o.sql = SubSeq(steps, 1, f) \o <<Rollback>>
               /\ o.s.db = db
               /\ o.resp = InternalError

(* C10: delete-project requested by the project's owner removes that
   project and exactly the project emails of that project, as one
   transaction (nothing is removed when a step fails), and leaves all other
   projects, emails and users unchanged; the only statement that looks at
   the owner is the DELETE that matches id and owner, no earlier read. *)
C10_DeleteProjectByOwner ==
  \A h \in AuthHeaders, p \in 1..MaxProjects, f \in 0..4, rf \in BOOLEAN :
    LET o == DeleteProjectHandler(S, h, p, f, rf)
        mine == { q \in db.projects : q.id = p /\ q.user_id = o.user.userId }
    IN  (o.ran /\ mine # {}) =>
          /\ o.s.db.users = db.users
          /\ IF f = 0
               THEN /\ o.resp.status = 200
                    /\ o.s.db.projects = db.projects \ mine
                    /\ o.s.db.project_emails =
                         { e \in db.project_emails : e.project_id # p }
                    /\ o.sql = <<Begin, DeleteEmailsOfProject,
                                 DeleteProjectOwned, Commit>>
               ELSE /\ o.resp.status # 200
                    /\ o.s.db = db
                    /\ Head(o.sql) = Begin
                    /\ o.sql[Len(o.sql)] = Rollback
          /\ \A i \in 1..Len(o.sql) :
               o.sql[i] \notin {SelectProjectOwned, SelectProjectById}

DeleteProjectOk ==
  Message(200, "Project and associated emails deleted successfully")

C10_Witness ==
  /\ resp = DeleteProjectOk
  /\ nextProjectId = 3 /\ nextEmailId = 3
  /\ Cardinality(db.projects) = 1
  /\ Cardinality(db.project_emails) = 1
  /\ \A e \in db.project_emails : \E q \in db.projects : q.id = e.project_id
  /\ Cardinality(db.users) = 2

(* C11: delete-project for a project that does not exist or that another
   user owns answers NotFoundOrNotOwned (404) after BEGIN, the email
   delete, the owner-matched project delete and ROLLBACK; whatever query
   fails, the projects and project emails are afterwards as before the
   request: the email deletion made inside the transaction is undone. *)
C11_DeleteProjectNotOwned ==
  \A h \in { <<"Bearer", t>> : t \in issued }, p \in 1..(MaxProjects + 1),
     f \in 0..4, rf \in BOOLEAN :
    LET o == DeleteProjectHandler(S, h, p, f, rf)
        mine == { q \in db.projects : q.id = p /\ q.user_id = o.user.userId }
    IN  (o.ran /\ mine = {}) =>
          /\ o.s.db = db
          /\ f = 0 =>
               /\ o.resp = Message(404, "Project not found or not owned by the user")
               /\ o.sql = <<Begin, DeleteEmailsOfProject, DeleteProjectOwned,
                            Rollback>>

C11_Witness ==
  /\ resp = NotFoundOrNotOwned
  /\ { q.id : q \in db.projects } = 1..MaxProjects
  /\ { q.user_id : q \in db.projects } = { u.id : u \in db.users }
  /\ Cardinality(db.users) = 2
  /\ \A q \in db.projects : \E e \in db.project_emails : e.project_id = q.id

DuplicateEmail == Message(400, "This email is already associated with an account")
DuplicateUsername == Message(400, "This username is already taken")
MissingFields == Message(400, "All fields are required")

(* C13: a signup whose email is already stored answers DuplicateEmail, one
   whose username is already stored (the email being new) answers
   DuplicateUsername; in both cases no user is created, no stored user is
   modified and no verification email is dispatched.  A signup with a
   missing username, email or password answers MissingFields before any
   query is issued. *)
C13_SignupDuplicatesAndMissing ==
  \A u \in UsernameInputs, e \in EmailInputs, p \in SignupPasswords :
    LET emailStored == \E r \in db.users : r.email = e
        nameStored == \E r \in db.users : r.username = u
        missing == u = <<>> \/ e = <<>> \/ p = <<>>
        o == SignupHandler(S, u, e, p, 0)
    IN  /\ missing =>
             \A f \in 0..3 :
               LET m == SignupHandler(S, u, e, p, f)
               IN  m.resp = MissingFields /\ m.sql = <<>> /\ m.s = S
        /\ (~missing /\ emailStored) =>
             o.resp = DuplicateEmail /\ o.s = S
        /\ (~missing /\ ~emailStored /\ nameStored) =>
             o.resp = DuplicateUsername /\ o.s = S

C13_Witness ==
  /\ resp = DuplicateUsername
  /\ Cardinality(db.users) = 1
  /\ Cardinality(outbox) = 1

EmailNotFound ==
  Message(404, "Email not found or not associated with this project")
EmailDeleted == Message(200, "Email deleted successfully")

(* C16: delete-project-email removes a row only when the authenticated
   requester owns the named project and the row has both the given email id
   and the given project id, and then it removes exactly that row and
   nothing else; a requester who does not own the project is answered
   NotFoundOrNotOwned, a pair that matches no row EmailNotFound, and in both
   cases no row is removed. *)
C16_DeleteEmailOwnerAndPair ==
  \A h \in AuthHeaders, p \in 1..(MaxProjects + 1),
     e \in 1..(MaxProjectEmails + 1), f \in 0..2 :
    LET o == DeleteEmailHandler(S, h, p, e, f)
        owned == \E q \in db.projects : q.id = p /\ q.user_id = o.user.userId
        hit == { r \in db.project_emails : r.id = e /\ r.project_id = p }
        removed == db.project_emails \ o.s.db.project_emails
    IN  /\ o.s.db.users = db.users /\ o.s.db.projects = db.projects
        /\ o.s.db.project_emails \subseteq db.project_emails
        /\ removed # {} => o.ran /\ owned /\ removed = hit /\ o.resp = EmailDeleted
        /\ (o.ran /\ f = 0) =>
             /\ ~owned => o.resp = NotFoundOrNotOwned /\ removed = {}
             /\ (owned /\ hit = {}) => o.resp = EmailNotFound /\ removed = {}
             /\ (owned /\ hit # {}) =>
                  o.resp = EmailDeleted /\ removed = hit /\ Cardinality(hit) = 1

C16_Witness ==
  /\ resp = EmailDeleted
  /\ nextEmailId = 3
  /\ Cardinality(db.project_emails) = 1
  /\ Cardinality(db.projects) = 2

(* C17: list-project-emails returns email records only to an authenticated
   requester who owns the named project, and then exactly the rows of that
   project; for a project that is absent or owned by another user it
   answers NotFoundOrNotOwned without any email record; it never changes
   state. *)
C17_ListEmailsOwnerOnly ==
  \A h \in AuthHeaders, p \in 1..(MaxProjects + 1), f \in 0..2 :
    LET o == GetEmailsHandler(S, h, p, f)
        owned == \E q \in db.projects : q.id = p /\ q.user_id = o.user.userId
        listed == IF "rows" \in DOMAIN o.resp.body THEN o.resp.body.rows ELSE {}
    IN  /\ o.s = S
        /\ listed \subseteq { r \in db.project_emails : r.project_id = p }
        /\ "rows" \in DOMAIN o.resp.body =>
             /\ o.ran /\ owned /\ o.resp.status = 200
             /\ listed = { r \in db.project_emails : r.project_id = p }
        /\ (o.ran /\ f = 0) =>
             IF owned THEN o.resp.status = 200 /\ "rows" \in DOMAIN o.resp.body
                      ELSE o.resp = NotFoundOrNotOwned

C17_Witness ==
  /\ resp.status = 200
  /\ "rows" \in DOMAIN resp.body
  /\ resp.body.rows # {}
  /\ resp.body.rows # db.project_emails
  /\ { q.user_id : q \in db.projects } = { u.id : u \in db.users }

HandlerOutcomes ==
  UNION { ProtectedOutcomes(h) : h \in AuthHeaders }
    \cup { SignupHandler(S, u, e, p, f) :
             u \in UsernameInputs, e \in EmailInputs, p \in SignupPasswords,
             f \in 0..3 }
    \cup { VerifyEmailHandler(S, t, f) : t \in TokenInputs, f \in 0..1 }
    \cup UNION { SigninHandler(S, i, p, f) :
                   i \in SigninInputs, p \in PasswordInputs, f \in 0..1 }
    \cup { AddEmailHandler(S, p, e, f) :
             p \in 1..MaxProjects, e \in ProjectEmailInputs, f \in 0..3 }
    \cup { StubSignupHandler(S, u, e, p, hf) :
             u \in UsernameInputs, e \in EmailInputs, p \in SignupPasswords,
             hf \in BOOLEAN }
    \cup { StubGetSignupHandler(S) }

(* C18: every request handler sends exactly one response on every code
   path, the paths where a query rejects (the ROLLBACK of a cascade's catch
   block included) and the path of a signup with all fields present
   included: no request is left without a response. *)
C18_ExactlyOneResponse ==
  \A o \in HandlerOutcomes : o.resp # NoResponse

(* C19: the signup response is sent while the verification email is still
   being dispatched, and the completion of the dispatch, with success or
   with an error, changes neither the response already sent nor the stored
   users: every user whose email failed to be dispatched stays created. *)
C19_MailIsFireAndForget ==
  /\ [][ nextUserId' # nextUserId =>
           /\ resp'.status = 201
           /\ mailLog' = mailLog
           /\ \E mail \in outbox' \ outbox :
                mail.to = resp'.body.email /\ mail \notin Dispatched ]_vars
  /\ [][ mailLog' # mailLog =>
           resp' = resp /\ db' = db /\ outbox' = outbox ]_vars
  /\ [](\A l \in mailLog : \E u \in db.users : u.email = l.to)

C19_Witness ==
  /\ resp.status = 201
  /\ \E l \in mailLog : l.error /\ l.to = resp.body.email
  /\ \E u \in db.users : u.email = resp.body.email

SecretColumns == {"password", "password_hash"}

Exposes(r) ==
  \/ DOMAIN r.body \cap SecretColumns # {}
  \/ /\ "rows" \in DOMAIN r.body
     /\ \E row \in r.body.rows : DOMAIN row \cap SecretColumns # {}

(* C20: no response of any endpoint contains a user's plaintext password
   or stored password hash, neither the response just sent nor the one any
   handler would send to any request in the current state. *)
C20_NoPasswordOrHashInResponse ==
  /\ ~Exposes(resp)
  /\ \A o \in HandlerOutcomes \cup { GetUsersHandler(S, f) : f \in 0..1 } :
       ~Exposes(o.resp)

(* C12: while a cascade delete is between its BEGIN and its COMMIT or
   ROLLBACK, no other request handled at the same time observes the
   partially applied cascade: the rows a list-project-emails request
   receives are the committed rows of the project, never rows as an open
   transaction of another request has left them for the moment. *)
C12_NoPartialCascadeObserved ==
  [][ \A i \in 1..MaxInflight :
        ( /\ inflight[i].kind = "getEmails"
          /\ inflight[i].pc = "getEmails"
          /\ inflight'[i].pc = "done" ) =>
          inflight'[i].resp.body.rows =
            { e \in Committed.project_emails :
                e.project_id = inflight[i].projectId } ]_vars

(* C14: in every reachable state, under any interleaving of signup
   requests between their duplicate checks and their inserts, no two
   stored users share a username and no two stored users share an email. *)
C14_UsernamesAndEmailsUnique ==
  \A u1, u2 \in db.users :
    u1 # u2 => u1.username # u2.username /\ u1.email # u2.email

(* C15: in every reachable state no two project-email rows share the same
   (project, email) pair, also when two add-project-email requests for the
   same pair interleave between the existence check and the insert; adding
   a stored pair again answers DuplicateEmail and adds no row. *)
C15_ProjectEmailPairsUnique ==
  /\ \A e1, e2 \in db.project_emails :
       e1 # e2 => e1.project_id # e2.project_id \/ e1.email # e2.email
  /\ \A e \in db.project_emails :
       LET o == AddEmailHandler(S, e.project_id, e.email, 0)
       IN  /\ o.resp = Message(400, "Email already associated with this project")
           /\ o.s = S

(* C21: a token returned by a successful signin at time t is accepted by
   the auth gate at every time before t + 3600 seconds and rejected at
   every time from t + 3600 seconds on, and the expiry timestamp returned
   with it is t plus one hour.  Times are instants in milliseconds. *)
Instants ==
  { sec * MsPerSecond + ms :
      sec \in { now, now + ExpiresIn - 1, now + ExpiresIn, now + ExpiresIn + 1 },
      ms \in SubSeconds }

Accepted(token, time) ==
  AuthenticateToken(<<"Bearer", token>>, time \div MsPerSecond).next

C21_TokenValidOneHour ==
  \A i \in Present(SigninInputs), p \in Present(PasswordInputs) :
    \A o \in SigninHandler(S, i, p, 0) :
      o.resp.status = 200 =>
        LET t == NewDate(S).time
        IN  /\ \A c \in Instants :
                 c >= t => (Accepted(o.resp.body.token, c) <=> c < t + MsPerHour)
            /\ o.resp.body.expires =
                 ToISOString([time |-> t + MsPerHour, zone |-> tz])

(* C22: signin looks the user up by email exactly when the identifying
   input contains "@" and by username otherwise, and for every stored
   verified user, signin with that user's username and correct password,
   and signin with that user's email and correct password, both succeed as
   that user. *)
C22_SigninByUsernameOrEmail ==
  /\ \A i \in Present(SigninInputs \cup UnvalidatedUsernames \cup UnvalidatedEmails),
        p \in Present(PasswordInputs) :
       \A o \in SigninHandler(S, i, p, 0) :
         o.sql = << IF \E k \in 1..Len(i) : i[k] = "@"
                      THEN SelectUserByEmail
                      ELSE SelectUserByUsername >>
  /\ \A u \in db.users :
       u.is_verified =>
         \A i \in { u.username, u.email } :
           \A o \in SigninHandler(S, i, PasswordOf(u), 0) :
             /\ o.resp.status = 200
             /\ o.resp.body.token.userId = u.id

AttemptedInsert(r) ==
  r.kind = "signup" /\ r.pc = "done" /\ r.resp.status \in {201, 500}

(* C23: when two signup requests with the same email (or the same
   username) have both passed both duplicate checks and both attempted the
   insert, exactly one user row has been created, the rejected request was
   answered InternalError (500), and a verification email was dispatched
   only by the request whose insert succeeded. *)
C23_ConcurrentSignupOneWins ==
  \A i, j \in 1..MaxInflight :
    ( /\ i # j
      /\ AttemptedInsert(inflight[i]) /\ AttemptedInsert(inflight[j])
      /\ \/ inflight[i].email = inflight[j].email
         \/ inflight[i].username = inflight[j].username ) =>
      LET created == { u \in db.users :
                         /\ u.username \in {inflight[i].username, inflight[j].username}
                         /\ u.email \in {inflight[i].email, inflight[j].email} }
      IN  /\ Cardinality(created) = 1
          /\ { inflight[i].resp.status, inflight[j].resp.status } = {201, 500}
          /\ InternalError \in { inflight[i].resp, inflight[j].resp }
          /\ \A u \in created :
                { m \in outbox : m.to \in {inflight[i].email, inflight[j].email} }
                  = { SendVerificationEmail(app, u.email, u.token) }

ReferentialIntegrity(d) ==
  /\ \A p \in d.projects : \E u \in d.users : u.id = p.user_id
  /\ \A e \in d.project_emails : \E p \in d.projects : p.id = e.project_id

(* C24: referential integrity holds in every reachable state under any
   interleaving of requests: in the committed tables every project's owning
   user is a stored user and every project email's project is a stored
   project. *)
C24_ReferentialIntegrity == ReferentialIntegrity(Committed)

Acknowledged(r) ==
  \/ r.kind \in {"signup", "addEmail"} /\ r.resp.status = 201
  \/ r.kind = "verifyEmail" /\ r.resp.status = 200

Written(r, d) ==
  CASE r.kind = "signup" -> \E u \in d.users : u.id = r.resp.body.id
    [] r.kind = "addEmail" -> r.resp.body \in d.project_emails
    [] r.kind = "verifyEmail" ->
         \E u \in d.users : u.token = r.token /\ u.is_verified
    [] OTHER -> TRUE

(* C25: a write that a handler acknowledges with a success response
   (signup 201, add-project-email 201, verify-email 200) is not part of the
   open transaction of a cascade running at the same time: it is in the
   committed tables when the response is sent; and the ROLLBACK of a
   delete-user or delete-project does not undo it. *)
C25_AcknowledgedWritesSurviveRollback ==
  /\ [][ \A j \in 1..MaxInflight :
           ( /\ inflight[j].pc # "done"
             /\ inflight'[j].pc = "done"
             /\ Acknowledged(inflight'[j]) ) =>
             Written(inflight'[j], Committed') ]_vars
  /\ [][ \A i, j \in 1..MaxInflight :
           ( /\ inflight[i].kind \in {"deleteProject", "deleteUser"}
             /\ inflight[i].pc = "rollback"
             /\ inflight'[i].pc = "done"
             /\ Acknowledged(inflight[j])
             /\ Written(inflight[j], db) ) =>
             Written(inflight[j], db') ]_vars

Deleted(token) == ~\E u \in db.users : u.id = token.userId

(* C26: the auth gate's decision depends only on the presented token, the
   signing secret and the current time, never on the stored users: a token
   issued to a user is still accepted after that user has been deleted,
   until it expires, and a delete-user request made with such a token
   answers success while removing no row. *)
C26_GateIgnoresStore ==
  /\ \A h \in AuthHeaders :
       LET o == DeleteUserHandler(S, h, 0, FALSE)
           e == DeleteUserHandler([S EXCEPT !.db = EmptyDb], h, 0, FALSE)
       IN  o.ran = e.ran /\ o.user = e.user
  /\ \A t \in issued :
       Deleted(t) =>
         LET o == DeleteUserHandler(S, <<"Bearer", t>>, 0, FALSE)
         IN  /\ o.ran <=> now < t.exp
             /\ o.ran => o.resp = DeleteUserOk /\ o.s.db = db

DeletingUser(userId) ==
  \/ resp' = DeleteUserOk
  \/ \E i \in 1..MaxInflight :
       inflight[i].kind = "deleteUser" /\ inflight[i].userId = userId

(* C27: the verified flag is monotonic per user: once a stored user's
   verified flag is true no step sets it back to false, and a verified user
   stops being stored only by a delete-user request of that user. *)
C27_VerifiedIsMonotonic ==
  [][ \A u \in db.users :
        u.is_verified =>
          /\ \A v \in db'.users : v.id = u.id => v.is_verified
          /\ (~\E v \in db'.users : v.id = u.id) => DeletingUser(u.id) ]_vars

UnknownIdentifier == <<"z">>

(* C28: signin checks the password before the verified flag: for an
   unverified user a wrong password yields InvalidCredentials, the response
   an unknown identifier gets, and EmailNotVerified is returned only to a
   caller who presented the correct password of an existing unverified
   user. *)
C28_PasswordBeforeVerified ==
  \A i \in SigninInputs, p \in PasswordInputs, f \in 0..1 :
    \A o \in SigninHandler(S, i, p, f) :
      /\ o.resp = EmailNotVerified =>
           \E u \in db.users :
             Identifies(u, i) /\ ~u.is_verified /\ PasswordOf(u) = p
      /\ ( /\ f = 0 /\ p # <<>>
           /\ \E u \in db.users : Identifies(u, i) /\ ~u.is_verified
           /\ \A u \in db.users : Identifies(u, i) => PasswordOf(u) # p ) =>
           /\ o.resp = InvalidCredentials
           /\ \A o2 \in SigninHandler(S, UnknownIdentifier, p, 0) :
                o2.resp = o.resp

C28_Witness ==
  /\ resp = InvalidCredentials
  /\ Cardinality(db.users) = 2
  /\ \A u \in db.users : ~u.is_verified
  /\ \A i \in Present(SigninInputs) : \E u \in db.users : Identifies(u, i)

(* C29: a verification email is dispatched only after the user row has
   been inserted successfully, exactly once per created user, to that
   user's email address and carrying exactly the token stored for that
   user; no email is dispatched for a signup that fails validation, a
   duplicate check or the insert. *)
C29_MailOncePerCreatedUser ==
  /\ \A u \in UsernameInputs, e \in EmailInputs, p \in SignupPasswords,
        f \in 0..3 :
       LET o == SignupHandler(S, u, e, p, f)
           mails == o.s.outbox \ outbox
           rows == o.s.db.users \ db.users
       IN  IF o.resp.status = 201
             THEN /\ Cardinality(rows) = 1
                  /\ o.sql[Len(o.sql)] = InsertUser
                  /\ \A row \in rows :
                       /\ row.email = e
                       /\ mails = { [to |-> row.email, token |-> row.token] }
             ELSE mails = {} /\ rows = {}
  /\ \A row \in db.users :
       Cardinality({ m \in outbox : m.to = row.email /\ m.token = row.token }) = 1
====
